---- MODULE Spec2Model ----
(***************************************************************************)
(* SummitOV Monitor API (src/main.py): the snapshot store, the two         *)
(* ingestion handlers (POST /refresh, POST /backfill_wayback) and the read *)
(* handlers (GET /latest, /search, /stats).                                *)
(*                                                                         *)
(* The handlers are coroutines of one event loop: an ingestion handler     *)
(* gives up control only at its awaits (the live fetch, the archive index  *)
(* query, the archive capture fetch), so every action below is the code    *)
(* between two awaits.  Each invocation opens its own sqlite3 connection   *)
(* (get_db), whose implicit transaction starts at its first INSERT and     *)
(* ends at the single conn.commit() after the loop over SEED_URLS, or is   *)
(* rolled back by conn.close().  SQLite's file locks are modelled by       *)
(* `writer` (the connection holding the RESERVED lock) and the per         *)
(* connection flags inTx / shared.                                         *)
(***************************************************************************)
EXTENDS Integers, Sequences, FiniteSets, TLC

VARIABLES
  db,          \* page_snapshots as committed: sequence of rows in rowid order
  writer,      \* connection holding SQLite's RESERVED (write) lock, or NoProc
  inv,         \* per connection slot: the state of its ingestion coroutine
  clock,       \* last value read from datetime.now(timezone.utc)
  backfilled,  \* history: url -> capture lists some returned backfill reported
  resp         \* body of the last response of a read handler

vars == <<db, writer, inv, clock, backfilled, resp>>

-----------------------------------------------------------------------------
(* Bounds of the model *)

MaxClock == 1
DayLen == 2

Procs == {1, 2}
NoProc == 0
\* Python's None
NoneVal == <<>>
NoResp == [op |-> "none"]

-----------------------------------------------------------------------------
(* Configuration *)

SEED_URLS == <<"https://summitov.com/", "https://summitov.com/tickets/">>

API_KEY == "k"

Auths == {NoneVal, <<"Bearer ", "k">>, <<"Bearer ", "x">>, <<"Basic ", "k">>}

\* require_api_key: 0 when the request may proceed, else the HTTP status raised
require_api_key(auth) ==
  IF API_KEY = "" THEN 0
  ELSE IF auth = NoneVal \/ auth[1] # "Bearer " THEN 401
  ELSE IF auth[2] # API_KEY THEN 403
  ELSE 0

-----------------------------------------------------------------------------
(* Pages and digests *)

\* What extract_text can return for a fetched document: {title, text}, both
\* strings (tuples of characters here).
PageA == [title |-> <<"A">>, text |-> <<"a", "b">>]
PageB == [title |-> <<>>, text |-> <<>>]
Pages == {PageA, PageB}

FetchError == "HTTPError"

\* An await on the network that raised (status, timeout, malformed body)
Failure == [error |-> FetchError]
Failed(outcome) == "error" \in DOMAIN outcome
LockedError == "database is locked"

\* sha256(text): a collision-free digest of the text
sha256(text) == <<"sha256", text>>

-----------------------------------------------------------------------------
(* Time *)

\* A Wayback timestamp "YYYYMMDDhhmmss" is <<day, second of the day>>; an ISO
\* fetched_at string is the number of ticks since day 0, whose order is the
\* lexicographic order of the strings.
Stamp1 == <<0, 0>>
Stamp2 == <<1, 0>>

\* The archive's captures do not change: what extract_text returns for the
\* capture of a url at a timestamp
Archived(url, ts) == IF ts = Stamp1 THEN PageA ELSE PageB

\* datetime.strptime(timestamp, ...).replace(tzinfo=utc).isoformat()
IsoOfStamp(ts) == ts[1] * DayLen + ts[2]

\* fetched_at[:10]
DateOf(fetched_at) == fetched_at \div DayLen

\* timedelta(days=since_days)
Days(since_days) == since_days * DayLen

-----------------------------------------------------------------------------
(* Sequences *)

Take(s, n) == SubSeq(s, 1, IF Len(s) < n THEN Len(s) ELSE n)

RECURSIVE Filter(_, _)
\* The subsequence of the elements whose index is in `keep`
Filter(s, keep) ==
  IF s = <<>> THEN <<>>
  ELSE Filter(SubSeq(s, 1, Len(s) - 1), keep)
       \o (IF Len(s) \in keep THEN <<s[Len(s)]>> ELSE <<>>)

-----------------------------------------------------------------------------
(* The store as one connection sees it *)

\* A record that keeps the digest the archive's index lists for the capture
RowForeignDigest(url, fetched_at, title, text, h) ==
  [url |-> url, fetched_at |-> fetched_at, title |-> title,
   text_content |-> text, content_hash |-> <<"cdx", url, fetched_at>>]

\* INSERT INTO page_snapshots(url, fetched_at, title, text_content, content_hash)
Row(url, fetched_at, title, text, h) ==
  [url |-> url, fetched_at |-> fetched_at, title |-> title,
   text_content |-> text, content_hash |-> h]

\* The rows a connection reads: the committed table and its own uncommitted
\* inserts; other connections' uncommitted inserts are invisible.
View(p) == db \o inv[p].txn

\* ORDER BY fetched_at ASC in place of DESC: the oldest row's hash
PrevHashesOldest(rows, url) ==
  LET own == {k \in 1..Len(rows) : rows[k].url = url}
      low == {k \in own : \A m \in own : rows[k].fetched_at <= rows[m].fetched_at}
  IN IF own = {} THEN {NoneVal} ELSE {rows[k].content_hash : k \in low}

\* SELECT content_hash ... WHERE url = ? ORDER BY fetched_at DESC LIMIT 1
\* The set of values the query can return (rows that tie on fetched_at come
\* back in an order SQL leaves open); NoneVal when the url has no row.
PrevHashes(rows, url) ==
  LET own == {k \in 1..Len(rows) : rows[k].url = url}
      top == {k \in own : \A m \in own : rows[m].fetched_at <= rows[k].fetched_at}
  IN IF own = {} THEN {NoneVal} ELSE {rows[k].content_hash : k \in top}

\* The check made with the raw Wayback timestamp, which no stored ISO string equals
ExistsNever(rows, url, fetched_at) == FALSE

\* SELECT 1 ... WHERE url = ? AND fetched_at = ? LIMIT 1
Exists(rows, url, fetched_at) ==
  \E k \in 1..Len(rows) : rows[k].url = url /\ rows[k].fetched_at = fetched_at

\* conn.execute("INSERT ...") on the connection's pending transaction
Insert(txn, row) == Append(txn, row)

\* INSERT OR REPLACE on (url, fetched_at): the new rows take the place of the
\* rows with their keys
PersistReplace(table, txn) ==
  Filter(table, {k \in 1..Len(table) :
                   \A j \in 1..Len(txn) :
                     \/ txn[j].url # table[k].url
                     \/ txn[j].fetched_at # table[k].fetched_at})
  \o txn

\* What conn.commit() makes of the table
Persist(table, txn) == table \o txn

\* An INSERT takes the RESERVED lock: it fails with "database is locked" when
\* another connection holds it (the busy timeout blocks the event loop, so the
\* holder cannot commit meanwhile).
CanWrite(p) == writer \in {NoProc, p}

\* conn.commit() of a writing transaction needs the EXCLUSIVE lock, which no
\* other connection's SHARED lock may stand in the way of.
CanCommit(p) == \A q \in Procs \ {p} : ~inv[q].reading

-----------------------------------------------------------------------------
(* Invocations *)

Finished == {"done", "failed", "cancelled"}
Waiting == {"fetch", "list", "capture"}

\* A request that has not arrived yet (kind "none"), or the locals of its
\* handler right after get_db() and results = [].
NewInv(kind, pc, conc) ==
  [kind |-> kind, pc |-> pc, i |-> 1,
   stamps |-> <<>>, j |-> 0, inserted |-> 0, skipped_existing |-> 0,
   results |-> <<>>, txn |-> <<>>, inTx |-> FALSE, reading |-> FALSE,
   replay |-> FALSE, wrote |-> <<>>, tried |-> {}, conc |-> conc]

Init ==
  /\ db = <<>>
  /\ writer = NoProc
  /\ inv = [p \in Procs |-> NewInv("none", "idle", FALSE)]
  /\ clock = 0
  /\ backfilled = {}
  /\ resp = NoResp

\* Entering a handler: require_api_key, get_db(), results = [], and on to the
\* first await.
Start(p, kind, pc, auth) ==
  /\ inv[p].pc = "idle"
  /\ require_api_key(auth) = 0
  /\ LET busy == \E q \in Procs \ {p} : inv[q].pc \in Waiting
     IN inv' = [q \in Procs |->
                  IF q = p THEN NewInv(kind, pc, busy)
                  ELSE IF inv[q].pc \in Waiting THEN [inv[q] EXCEPT !.conc = TRUE]
                  ELSE inv[q]]
  /\ resp' = NoResp
  /\ UNCHANGED <<db, writer, clock, backfilled>>

StartRefresh(p, auth) == Start(p, "refresh", "fetch", auth)

StartBackfill(p, auth) == Start(p, "backfill", "list", auth)

\* A handler left by an exception: its locals are gone, its connection closed
\* (wrote, tried and conc are history)
Gone(rec, pc) ==
  [NewInv(rec.kind, pc, rec.conc) EXCEPT !.wrote = rec.wrote, !.tried = rec.tried]

\* The capture lists a returned backfill reported as successfully ingested
Reported(rec) ==
  {<<rec.results[k].url, rec.results[k].stamps>> :
     k \in {n \in 1..Len(rec.results) : "stamps" \in DOMAIN rec.results[n]}}

\* The end of one pass of `for url in SEED_URLS`: on to the next url's first
\* await, or past the loop to conn.commit(), conn.close() and the return.
\* rec is the handler's state after the pass and w the holder of the write lock.
NextUrl(p, rec, w) ==
  IF rec.i < Len(SEED_URLS)
  THEN /\ inv' = [inv EXCEPT ![p] =
                    [rec EXCEPT !.i = @ + 1,
                                !.pc = IF rec.kind = "refresh" THEN "fetch" ELSE "list",
                                !.stamps = <<>>, !.j = 0, !.replay = FALSE,
                                !.inserted = 0, !.skipped_existing = 0]]
       /\ writer' = w
       /\ UNCHANGED <<db, backfilled>>
  ELSE IF w = p /\ ~CanCommit(p)
  THEN \* conn.commit() raises OperationalError; conn.close() rolls back; HTTP 500
       /\ inv' = [inv EXCEPT ![p] =
                    Gone(rec, "failed")]
       /\ writer' = NoProc
       /\ UNCHANGED <<db, backfilled>>
  ELSE /\ db' = Persist(db, rec.txn)
       /\ inv' = [inv EXCEPT ![p] =
                    [rec EXCEPT !.pc = "done", !.txn = <<>>,
                                !.stamps = <<>>, !.j = 0, !.replay = FALSE,
                                !.inserted = 0, !.skipped_existing = 0,
                                !.inTx = FALSE, !.reading = FALSE]]
       /\ writer' = IF w = p THEN NoProc ELSE w
       /\ backfilled' = IF rec.kind = "backfill"
                        THEN backfilled \cup Reported(rec) ELSE backfilled

\* `except Exception: pass`: a failed source leaves no entry
AppendResultSilent(results, entry) ==
  IF "error" \in DOMAIN entry THEN results ELSE Append(results, entry)

\* One failed source fails the batch: its error is all that is reported
AppendResultOnce(results, entry) ==
  IF "error" \in DOMAIN entry THEN <<entry>> ELSE Append(results, entry)

\* results.append(entry)
AppendResult(results, entry) == Append(results, entry)

\* A SELECT inside an open transaction takes a SHARED lock that is kept until
\* the transaction ends; outside one it is released at once.
AfterSelect(p, rec) == [rec EXCEPT !.reading = (rec.inTx /\ writer # p) \/ @]

\* The rest of a pass of refresh's loop once fetch_page has returned `parsed`
RefreshStore(p, rec, url, parsed, prev_hash, now) ==
  LET h == sha256(parsed.text)
      changed == (prev_hash # h)
      read == AfterSelect(p, rec)
      row == Row(url, now, parsed.title, parsed.text, h)
      try == [read EXCEPT !.inTx = TRUE, !.tried = @ \cup {<<url, now>>}]
  IN IF CanWrite(p)
     THEN NextUrl(p, [try EXCEPT !.txn = Insert(@, row),
                                 !.wrote = Append(@, row),
                                 !.reading = FALSE,
                                 !.results = AppendResult(@,
                                     [url |-> url, title |-> parsed.title,
                                      changed |-> changed, at |-> now])],
                  p)
     ELSE NextUrl(p, [try EXCEPT !.results = AppendResult(@,
                                     [url |-> url, error |-> LockedError])],
                  writer)

\* POST /refresh, from the return of `await fetch_page(url)` to the next await
\* or to the return of the handler.
RefreshStep(p, outcome, now) ==
  /\ inv[p].pc = "fetch"
  /\ LET rec == inv[p]
         url == SEED_URLS[rec.i]
     IN IF Failed(outcome)
        THEN /\ NextUrl(p, [rec EXCEPT !.results = AppendResult(@,
                                [url |-> url, error |-> FetchError])], writer)
             /\ clock' = clock
        ELSE /\ \E prev_hash \in PrevHashes(View(p), url) :
                  RefreshStore(p, rec, url, outcome, prev_hash, now)
             /\ clock' = now
  /\ resp' = NoResp

\* asyncio cancels the handler at its await: CancelledError is no Exception, so
\* only `finally: conn.close()` runs, which rolls the transaction back.
Cancel(p) ==
  /\ inv[p].pc \in Waiting
  /\ inv' = [inv EXCEPT ![p] = Gone(@, "cancelled")]
  /\ writer' = IF writer = p THEN NoProc ELSE writer
  /\ resp' = NoResp
  /\ UNCHANGED <<db, clock, backfilled>>

-----------------------------------------------------------------------------
(* The Wayback Machine *)

Header == <<"timestamp", "original">>
Capture(ts) == <<ts, "original">>
NoStamp == <<>>

\* The JSON bodies the CDX index can answer with
WaybackResponses ==
  { <<Header>>,
    <<Header, Capture(Stamp1)>>,
    <<Header, Capture(Stamp1), Capture(NoStamp), Capture(Stamp2)>> }

RECURSIVE Stamps(_)
\* for row in rows: if row and row[0]: stamps.append(row[0])
Stamps(rows) ==
  IF rows = <<>> THEN <<>>
  ELSE LET row == Head(rows)
       IN IF row # <<>> /\ row[1] # NoStamp
          THEN <<row[1]>> \o Stamps(Tail(rows))
          ELSE Stamps(Tail(rows))

\* wayback_snapshots, from the JSON body on
wayback_snapshots(data) ==
  IF data = <<>> \/ Len(data) <= 1 THEN <<>> ELSE Stamps(Tail(data))

\* `inserted` never reset between urls: it counts the rows of the invocation
BackfillReportTotal(rec, url) ==
  [url |-> url, snapshots_found |-> Len(rec.stamps),
   inserted |-> Len(rec.wrote), skipped_existing |-> rec.skipped_existing,
   stamps |-> rec.stamps, replay |-> rec.replay]

\* results.append({"url", "snapshots_found", "inserted", "skipped_existing"})
\* (stamps and replay are history: the capture list, and whether a returned
\* backfill had reported that list for the url when this one listed it)
BackfillReport(rec, url) ==
  [url |-> url, snapshots_found |-> Len(rec.stamps),
   inserted |-> rec.inserted, skipped_existing |-> rec.skipped_existing,
   stamps |-> rec.stamps, replay |-> rec.replay]

\* The end of one pass of `for ts in stamps`: on to the next capture's fetch, or
\* past the loop to the url's report.
NextStamp(p, rec, url, w) ==
  IF rec.j < Len(rec.stamps)
  THEN /\ inv' = [inv EXCEPT ![p] = [rec EXCEPT !.j = @ + 1, !.pc = "capture"]]
       /\ writer' = w
       /\ UNCHANGED <<db, backfilled>>
  ELSE NextUrl(p, [rec EXCEPT !.results =
                     AppendResult(@, BackfillReport(rec, url))], w)

\* POST /backfill_wayback, from the return of `await wayback_snapshots(...)` to
\* the next await or to the return of the handler.
BackfillList(p, data) ==
  /\ inv[p].pc = "list"
  /\ LET rec == inv[p]
         url == SEED_URLS[rec.i]
     IN IF Failed(data)
        THEN NextUrl(p, [rec EXCEPT !.results = AppendResult(@,
                           [url |-> url, error |-> FetchError])], writer)
        ELSE LET stamps == wayback_snapshots(data.json)
             IN NextStamp(p, [rec EXCEPT !.stamps = stamps,
                                         !.j = 0, !.inserted = 0,
                                         !.skipped_existing = 0,
                                         !.replay = <<url, stamps>> \in backfilled],
                          url, writer)
  /\ resp' = NoResp
  /\ UNCHANGED clock

\* The rest of a pass of backfill's inner loop once fetch_wayback has returned
BackfillStore(p, rec, url, parsed) ==
  LET h == sha256(parsed.text)
      fetched_at == IsoOfStamp(rec.stamps[rec.j])
      read == AfterSelect(p, rec)
      row == Row(url, fetched_at, parsed.title, parsed.text, h)
      try == [read EXCEPT !.inTx = TRUE, !.tried = @ \cup {<<url, fetched_at>>}]
  IN IF Exists(View(p), url, fetched_at)
     THEN NextStamp(p, [read EXCEPT !.skipped_existing = @ + 1], url, writer)
     ELSE IF CanWrite(p)
     THEN NextStamp(p, [try EXCEPT !.txn = Insert(@, row),
                                   !.wrote = Append(@, row),
                                   !.reading = FALSE,
                                   !.inserted = @ + 1], url, p)
     ELSE NextUrl(p, [try EXCEPT !.results = AppendResult(@,
                                   [url |-> url, error |-> LockedError])],
                  writer)

\* POST /backfill_wayback, from the return of `await fetch_wayback(url, ts)` to
\* the next await or to the return of the handler.
BackfillCapture(p, ok) ==
  /\ inv[p].pc = "capture"
  /\ LET rec == inv[p]
         url == SEED_URLS[rec.i]
         outcome == IF ok THEN Archived(url, rec.stamps[rec.j]) ELSE Failure
     IN IF Failed(outcome)
        THEN NextUrl(p, [rec EXCEPT !.results = AppendResult(@,
                           [url |-> url, error |-> FetchError])], writer)
        ELSE BackfillStore(p, rec, url, outcome)
  /\ resp' = NoResp
  /\ UNCHANGED clock

-----------------------------------------------------------------------------
(* Strings and sequences *)

RECURSIVE InsertBy(_, _, _)
\* x put into the sorted s behind every element that is not after it
InsertBy(Before(_, _), s, x) ==
  IF s = <<>> THEN <<x>>
  ELSE IF Before(x, s[Len(s)])
       THEN InsertBy(Before, SubSeq(s, 1, Len(s) - 1), x) \o <<s[Len(s)]>>
       ELSE s \o <<x>>

RECURSIVE SortBy(_, _)
\* A stable sort: elements neither of which is Before the other keep their order
SortBy(Before(_, _), s) ==
  IF s = <<>> THEN <<>>
  ELSE InsertBy(Before, SortBy(Before, SubSeq(s, 1, Len(s) - 1)), s[Len(s)])

Whitespace == {" "}
UpperCase == <<"A", "B">>
LowerCase == <<"a", "b">>

\* ASCII case folding, as SQLite's LIKE does it
Lower(c) ==
  IF \E k \in 1..Len(UpperCase) : UpperCase[k] = c
  THEN LowerCase[CHOOSE k \in 1..Len(UpperCase) : UpperCase[k] = c]
  ELSE c

RECURSIVE LStrip(_)
LStrip(q) == IF q # <<>> /\ Head(q) \in Whitespace THEN LStrip(Tail(q)) ELSE q

RECURSIVE RStrip(_)
RStrip(q) ==
  IF q # <<>> /\ q[Len(q)] \in Whitespace THEN RStrip(SubSeq(q, 1, Len(q) - 1)) ELSE q

\* q.strip()
Strip(q) == RStrip(LStrip(q))

RECURSIVE Like(_, _)
\* SQLite's `text LIKE pattern`: % is any run of characters, _ any one
\* character, anything else itself in either case
Like(text, pattern) ==
  IF pattern = <<>> THEN text = <<>>
  ELSE IF Head(pattern) = "%"
       THEN Like(text, Tail(pattern)) \/ (text # <<>> /\ Like(Tail(text), pattern))
       ELSE /\ text # <<>>
            /\ Head(pattern) = "_" \/ Lower(Head(pattern)) = Lower(Head(text))
            /\ Like(Tail(text), Tail(pattern))

-----------------------------------------------------------------------------
(* The read handlers *)

SnippetLen == 280
SearchLimit == 50
Untitled == <<"U", "n", "t", "i", "t", "l", "e", "d">>
Ellipsis == <<"...">>

\* The position of a url in the order of the url strings
UrlRank(url) == CHOOSE k \in 1..Len(SEED_URLS) : SEED_URLS[k] = url

\* Item(title=..., channel="website", published_at=..., url=..., summary=...)
Item(r) ==
  [title |-> IF r.title # <<>> THEN r.title ELSE Untitled,
   channel |-> "website",
   published_at |-> DateOf(r.fetched_at),
   url |-> r.url,
   summary |-> IF r.text_content # <<>>
               THEN Take(r.text_content, SnippetLen) \o Ellipsis ELSE NoneVal]

Items(rows) == [k \in 1..Len(rows) |-> Item(rows[k])]

\* WHERE fetched_at >= ?
Since(rows, cutoff) ==
  Filter(rows, {k \in 1..Len(rows) : rows[k].fetched_at >= cutoff})

\* ORDER BY url, fetched_at (rows that tie come in rowid order)
ByUrlTime(a, b) ==
  \/ UrlRank(a.url) < UrlRank(b.url)
  \/ a.url = b.url /\ a.fetched_at < b.fetched_at

\* ORDER BY fetched_at DESC (rows that tie come in rowid order)
ByTimeDesc(a, b) == a.fetched_at > b.fetched_at

\* items.sort(key=lambda x: x.published_at, reverse=True)
ByDateDesc(a, b) == DateOf(a.fetched_at) > DateOf(b.fetched_at)

\* last_hash: Dict[str, str] = {}, read with last_hash.get(url)
NoHashes == [url \in {SEED_URLS[k] : k \in 1..Len(SEED_URLS)} |-> NoneVal]

\* One last hash for all urls in place of one per url
RememberAny(last_hash, url, h) == [u \in DOMAIN last_hash |-> h]

\* last_hash[url] = h
Remember(last_hash, url, h) == [last_hash EXCEPT ![url] = h]

RECURSIVE DetectFrom(_, _, _, _)
\* `for r in rows` of latest from the k-th row on: items holds the indices of
\* the rows an Item was appended for.
DetectFrom(rows, k, last_hash, items) ==
  IF k > Len(rows) THEN items
  ELSE LET url == rows[k].url
           h == rows[k].content_hash
           prev == last_hash[url]
       IN DetectFrom(rows, k + 1, Remember(last_hash, url, h),
                     IF prev # h THEN Append(items, k) ELSE items)

ChangeDetector(rows) == DetectFrom(rows, 1, NoHashes, <<>>)

\* The rows latest answers with, in the order of its answer
LatestRows(table, cutoff) ==
  LET rows == SortBy(ByUrlTime, Since(table, cutoff))
      picked == ChangeDetector(rows)
  IN SortBy(ByDateDesc, [k \in 1..Len(picked) |-> rows[picked[k]]])

\* The rows search answers with, in the order of its answer
SearchRows(table, q, cutoff) ==
  LET like == <<"%">> \o Strip(q) \o <<"%">>
      rows == Since(table, cutoff)
      hits == Filter(rows, {k \in 1..Len(rows) :
                              \/ Like(rows[k].title, like)
                              \/ Like(rows[k].text_content, like)})
  IN Take(SortBy(ByTimeDesc, hits), SearchLimit)

\* GET /latest
Latest(since_days, now) ==
  /\ LET cutoff == now - Days(since_days)
         rows == LatestRows(db, cutoff)
     IN resp' = [op |-> "latest", cutoff |-> cutoff, rows |-> rows,
                 results |-> Items(rows)]
  /\ clock' = now
  /\ UNCHANGED <<db, writer, inv, backfilled>>

\* GET /search
Search(q, since_days, now) ==
  /\ LET cutoff == now - Days(since_days)
         rows == SearchRows(db, q, cutoff)
     IN resp' = [op |-> "search", q |-> q, cutoff |-> cutoff, rows |-> rows,
                 results |-> Items(rows)]
  /\ clock' = now
  /\ UNCHANGED <<db, writer, inv, backfilled>>

\* The same aggregate with WHERE url = SEED_URLS[0]
CoverageFirst(table) ==
  LET own == {k \in 1..Len(table) : table[k].url = SEED_URLS[1]}
      times == {table[k].fetched_at : k \in own}
  IN [n |-> Cardinality(own),
      min_ts |-> IF times = {} THEN NoneVal
                 ELSE CHOOSE t \in times : \A u \in times : t <= u,
      max_ts |-> IF times = {} THEN NoneVal
                 ELSE CHOOSE t \in times : \A u \in times : u <= t]

\* SELECT MIN(fetched_at), MAX(fetched_at), COUNT(*) FROM page_snapshots
Coverage(table) ==
  LET times == {table[k].fetched_at : k \in 1..Len(table)}
  IN [n |-> Len(table),
      min_ts |-> IF times = {} THEN NoneVal
                 ELSE CHOOSE t \in times : \A u \in times : t <= u,
      max_ts |-> IF times = {} THEN NoneVal
                 ELSE CHOOSE t \in times : \A u \in times : u <= t]

\* GET /stats
Stats ==
  /\ LET r == Coverage(db)
     IN resp' = [op |-> "stats", count |-> r.n, min_fetched_at |-> r.min_ts,
                 max_fetched_at |-> r.max_ts, seed_urls |-> SEED_URLS]
  /\ UNCHANGED <<db, writer, inv, clock, backfilled>>

-----------------------------------------------------------------------------

\* The values datetime.now(timezone.utc) can return next
Clock == clock..MaxClock

\* The requests' parameters
SinceDays == {0, 30}
Keywords == {<<"A">>, <<"_">>}

\* The ingestion handlers are entered ...
Arrive(p) ==
  \/ \E auth \in Auths : StartRefresh(p, auth)
  \/ \E auth \in Auths : StartBackfill(p, auth)

\* ... and go on from await to await, or are cancelled at one
Proceed ==
  \/ \E p \in Procs, outcome \in Pages \cup {Failure}, now \in Clock :
       RefreshStep(p, outcome, now)
  \/ \E p \in Procs, data \in {[json |-> d] : d \in WaybackResponses} \cup {Failure} :
       BackfillList(p, data)
  \/ \E p \in Procs, ok \in BOOLEAN : BackfillCapture(p, ok)
  \/ \E p \in Procs : Cancel(p)

\* Requests to the read handlers
Read ==
  \/ \E since_days \in SinceDays : Latest(since_days, clock)
  \/ \E q \in Keywords : Search(q, 30, clock)
  \/ Stats

\* Two requests to the ingestion handlers, one after the other or overlapping,
\* and requests to the read handlers at any point
Next ==
  \/ \E p \in Procs : Arrive(p)
  \/ Proceed
  \/ Read

Spec == Init /\ [][Next]_vars

\* The same with one ingestion handler at a time ("single writer per cycle"):
\* a request is let in only when no other is in flight.
Solo(p) == \A q \in Procs \ {p} : inv[q].pc \notin Waiting

NextSolo ==
  \/ \E p \in Procs : Solo(p) /\ Arrive(p)
  \/ Proceed
  \/ Read

SpecSolo == Init /\ [][NextSolo]_vars

-----------------------------------------------------------------------------
(* The change detector on its own: any sequence of rows in ascending time,   *)
(* of one url or of several interleaved                                      *)

MaxSeq == 6

\* The row of the k-th snapshot in time: of url c[1], showing page c[2]
SnapshotAt(k, c) == Row(c[1], k, c[2].title, c[2].text, sha256(c[2].text))

InitDetect ==
  /\ \E n \in 0..MaxSeq :
       \E f \in [1..n -> {SEED_URLS[k] : k \in 1..Len(SEED_URLS)} \X Pages] :
         db = [k \in 1..n |-> SnapshotAt(k, f[k])]
  /\ writer = NoProc
  /\ inv = [p \in Procs |-> NewInv("none", "idle", FALSE)]
  /\ clock = 0
  /\ backfilled = {}
  /\ resp = NoResp

\* Lines 257-274 of latest applied to the rows
Detect ==
  /\ resp' = [op |-> "detect", items |-> ChangeDetector(db)]
  /\ UNCHANGED <<db, writer, inv, clock, backfilled>>

NextDetect == Detect

SpecDetect == InitDetect /\ [][NextDetect]_vars

-----------------------------------------------------------------------------
(* Properties *)

Range(s) == {s[k] : k \in 1..Len(s)}

\* The number of committed rows with a (url, fetched_at) pair
Count(table, key) ==
  Cardinality({k \in 1..Len(table) :
                 table[k].url = key[1] /\ table[k].fetched_at = key[2]})

IsError(e) == "error" \in DOMAIN e

Refreshed(p) == inv[p].kind = "refresh" /\ inv[p].pc = "done"
Backfilled(p) == inv[p].kind = "backfill" /\ inv[p].pc = "done"

\* C1: the store never holds two records with the same (source, observedAt)
\* pair, whatever refresh and backfill invocations have completed.
C1_UniqueKeys ==
  \A i, j \in 1..Len(db) :
    (db[i].url = db[j].url /\ db[i].fetched_at = db[j].fetched_at) => i = j

\* C2: a backfill that returns and reports a source whose capture list an
\* earlier returned backfill had reported for that source reports inserted = 0
\* and skippedExisting = snapshotsFound for it, and has added no record of it.
C2_BackfillReplay ==
  \A p \in Procs :
    Backfilled(p) =>
      \A k \in 1..Len(inv[p].results) :
        LET e == inv[p].results[k]
        IN (~IsError(e) /\ e.replay) =>
             /\ e.inserted = 0
             /\ e.skipped_existing = e.snapshots_found
             /\ \A j \in 1..Len(inv[p].wrote) : inv[p].wrote[j].url # e.url

\* A returned backfill has replayed a list of two captures
C2_Replayed ==
  \E p \in Procs :
    /\ Backfilled(p)
    /\ \E k \in 1..Len(inv[p].results) :
         /\ ~IsError(inv[p].results[k])
         /\ inv[p].results[k].replay
         /\ inv[p].results[k].snapshots_found = 2

\* C3: a refresh that returns lists every tracked source exactly once, in
\* order, as {url, title, changed} or as {url, error}, whichever sources
\* failed, and the snapshot of every source listed as a success is in the
\* store.
C3_RefreshIsolation ==
  \A p \in Procs :
    Refreshed(p) =>
      /\ Len(inv[p].results) = Len(SEED_URLS)
      /\ \A k \in 1..Len(inv[p].results) :
           LET e == inv[p].results[k]
           IN /\ e.url = SEED_URLS[k]
              /\ \/ DOMAIN e = {"url", "error"}
                 \/ /\ {"url", "title", "changed"} \subseteq DOMAIN e
                    /\ ~IsError(e)
                    /\ e.changed \in BOOLEAN
                    /\ \E j \in 1..Len(db) :
                         /\ db[j].url = e.url
                         /\ db[j].title = e.title
                         /\ db[j].fetched_at = e.at
                         /\ db[j] \in Range(inv[p].wrote)

\* A refresh has returned with its first source failed and its second stored
C3_PartialFailure ==
  \E p \in Procs :
    /\ Refreshed(p)
    /\ Len(inv[p].results) = 2
    /\ IsError(inv[p].results[1])
    /\ ~IsError(inv[p].results[2])
    /\ Count(db, <<SEED_URLS[2], inv[p].results[2].at>>) >= 1

\* C4: a committed record stays where it is, with the fields it has, through
\* every step of refresh, backfill, latest, search and stats.
C4_AppendOnly ==
  [][/\ Len(db') >= Len(db)
     /\ \A k \in 1..Len(db) : db'[k] = db[k]]_vars

\* Two invocations have committed records one after the other, and a read
\* handler has answered since
C4_Grown ==
  /\ \A p \in Procs : inv[p].pc = "done" /\ inv[p].wrote # <<>>
  /\ Len(db) >= 2
  /\ resp.op # "none"

\* C5: once two overlapping invocations that both tried to insert the same
\* (source, observedAt) have finished, the store holds exactly one record of
\* that pair.
C5_AtomicAppend ==
  \A p, q \in Procs :
    (/\ p # q
     /\ inv[p].pc \in Finished /\ inv[q].pc \in Finished
     /\ inv[p].conc /\ inv[q].conc)
    => \A key \in inv[p].tried \cap inv[q].tried : Count(db, key) = 1

\* C6: the snapshots a cancelled invocation had appended are in the store.
C6_CancelKeeps ==
  \A p \in Procs :
    inv[p].pc = "cancelled" =>
      \A k \in 1..Len(inv[p].wrote) : inv[p].wrote[k] \in Range(db)

\* The rows before the k-th that are of its url
Earlier(rows, k) == {m \in 1..(k - 1) : rows[m].url = rows[k].url}

\* The k-th row opens a maximal run of equal digests of its url
FirstOfRun(rows, k) ==
  LET earlier == Earlier(rows, k)
  IN \/ earlier = {}
     \/ LET m == CHOOSE m \in earlier : \A n \in earlier : n <= m
        IN rows[m].content_hash # rows[k].content_hash

DigestA == sha256(PageA.text)
DigestB == sha256(PageB.text)

\* Six snapshots of the first source with the digests A, A, B, B, B, A
Collapsing ==
  /\ Len(db) = 6
  /\ \A k \in 1..6 : db[k].url = SEED_URLS[1]
  /\ [k \in 1..6 |-> db[k].content_hash]
       = <<DigestA, DigestA, DigestB, DigestB, DigestB, DigestA>>

\* C7: over snapshots in ascending time order, of one source or of several
\* interleaved, ChangeDetector emits exactly the snapshots that open a maximal
\* run of equal digests of their source, in their order, the first snapshot of
\* a source included; for the digests A, A, B, B, B, A it emits the 1st, the
\* 3rd and the 6th.
C7_ChangePoints ==
  resp.op = "detect" =>
    /\ Range(resp.items) = {k \in 1..Len(db) : FirstOfRun(db, k)}
    /\ \A i, j \in 1..Len(resp.items) : i < j => resp.items[i] < resp.items[j]
    /\ Collapsing => resp.items = <<1, 3, 6>>

\* ChangeDetector has run over the digests A, A, B, B, B, A of one source
C7_Collapsed == resp.op = "detect" /\ Collapsing /\ Len(resp.items) = 3

\* The rows of a url among the committed ones
Prior(url) == {k \in 1..Len(db) : db[k].url = url}

\* The latest rows of a url among the committed ones
MostRecent(url) ==
  {k \in Prior(url) : \A m \in Prior(url) : db[m].fetched_at <= db[k].fetched_at}

\* C8: with one ingestion handler running at a time, each source of a refresh
\* whose fetch succeeds gets exactly one new snapshot, stamped with the time
\* read at that step, whatever its content, and its `changed` is true exactly
\* when the source had no committed snapshot or its digest differs from the
\* digest of a latest committed one; a source whose fetch fails gets none; and
\* the snapshots are committed, in order, when the refresh returns.
C8_RefreshAppends ==
  [][\A p \in Procs :
       (/\ inv[p].kind = "refresh"
        /\ inv[p].pc = "fetch"
        /\ Len(inv'[p].results) = Len(inv[p].results) + 1)
       => LET url == SEED_URLS[inv[p].i]
              e == inv'[p].results[Len(inv'[p].results)]
              new == inv'[p].wrote[Len(inv'[p].wrote)]
          IN /\ e.url = url
             /\ IF IsError(e)
                THEN /\ e.error = FetchError
                     /\ inv'[p].wrote = inv[p].wrote
                ELSE /\ Len(inv'[p].wrote) = Len(inv[p].wrote) + 1
                     /\ SubSeq(inv'[p].wrote, 1, Len(inv[p].wrote)) = inv[p].wrote
                     /\ new.url = url
                     /\ new.fetched_at = clock'
                     /\ new.content_hash = sha256(new.text_content)
                     /\ e.at = clock'
                     /\ e.title = new.title
                     /\ e.changed <=>
                          \/ Prior(url) = {}
                          \/ \E k \in MostRecent(url) :
                               db[k].content_hash # new.content_hash
             /\ inv'[p].pc = "done" => db' = db \o inv'[p].wrote
             /\ inv'[p].pc # "done" => db' = db]_vars

\* A refresh has returned having stored a snapshot it reported as unchanged
C8_StoredUnchanged ==
  \E p \in Procs :
    /\ Refreshed(p)
    /\ \E k \in 1..Len(inv[p].results) :
         /\ ~IsError(inv[p].results[k])
         /\ ~inv[p].results[k].changed
         /\ Count(db, <<inv[p].results[k].url, inv[p].results[k].at>>) = 1

\* C9: the change points latest answers with come latest observedAt first.
C9_LatestOrder ==
  resp.op = "latest" =>
    \A i, j \in 1..Len(resp.rows) :
      i < j => resp.rows[i].fetched_at >= resp.rows[j].fetched_at

\* text holds keyword as a substring, letters compared without their case
Contains(text, keyword) ==
  \E i \in 1..(Len(text) - Len(keyword) + 1) :
    \A j \in 1..Len(keyword) : Lower(text[i + j - 1]) = Lower(keyword[j])

\* C10: search answers with exactly the committed snapshots not older than
\* the cutoff whose title or text holds the keyword as a substring, letters
\* compared without their case, latest first, at most 50 of them.
C10_SearchExact ==
  resp.op = "search" =>
    LET rows == Since(db, resp.cutoff)
        hits == Filter(rows, {k \in 1..Len(rows) :
                                \/ Contains(rows[k].title, resp.q)
                                \/ Contains(rows[k].text_content, resp.q)})
    IN resp.rows = Take(SortBy(ByTimeDesc, hits), SearchLimit)

\* C11: stats answers with the number of committed snapshots and with the
\* least and the greatest observedAt over all of them, of whatever source;
\* with 0 and no bounds when there is none.
C11_Coverage ==
  resp.op = "stats" =>
    /\ resp.count = Len(db)
    /\ resp.seed_urls = SEED_URLS
    /\ IF db = <<>>
       THEN resp.min_fetched_at = NoneVal /\ resp.max_fetched_at = NoneVal
       ELSE /\ \E k \in 1..Len(db) : db[k].fetched_at = resp.min_fetched_at
            /\ \E k \in 1..Len(db) : db[k].fetched_at = resp.max_fetched_at
            /\ \A k \in 1..Len(db) :
                 /\ resp.min_fetched_at <= db[k].fetched_at
                 /\ db[k].fetched_at <= resp.max_fetched_at

\* stats has answered over snapshots of both sources taken at different times
C11_Covered ==
  /\ resp.op = "stats"
  /\ resp.count >= 2
  /\ resp.min_fetched_at < resp.max_fetched_at
  /\ \E i, j \in 1..Len(db) : db[i].url # db[j].url

\* C12: no refresh or backfill waits on a fetch while it holds the store's
\* write lock, that is with an open transaction that has written.
C12_NoLockAcrossFetch ==
  \A p \in Procs : inv[p].pc \in Waiting => writer # p

\* The committed snapshots of a url that come before time t
Before(url, t) ==
  {k \in 1..Len(db) : db[k].url = url /\ db[k].fetched_at < t}

\* The latest of them
LastBefore(url, t) ==
  {k \in Before(url, t) :
     \A m \in Before(url, t) : db[m].fetched_at <= db[k].fetched_at}

\* C13: every snapshot latest answers with is a change point of the stored
\* history of its source: the source has no earlier committed snapshot, or
\* the committed snapshot right before it has another digest.
C13_StoredChangePoints ==
  resp.op = "latest" =>
    \A i \in 1..Len(resp.rows) :
      LET r == resp.rows[i]
      IN \/ Before(r.url, r.fetched_at) = {}
         \/ \E k \in LastBefore(r.url, r.fetched_at) :
              db[k].content_hash # r.content_hash

IsReport(e) ==
  DOMAIN e \cap {"url", "snapshots_found", "inserted", "skipped_existing", "error"}
    = {"url", "snapshots_found", "inserted", "skipped_existing"}

\* C14: a backfill that returns lists every source exactly once, in order, as
\* {url, snapshots_found, inserted, skipped_existing} or as {url, error},
\* whichever sources' index query or capture fetch failed.
C14_BackfillIsolation ==
  \A p \in Procs :
    Backfilled(p) =>
      /\ Len(inv[p].results) = Len(SEED_URLS)
      /\ \A k \in 1..Len(inv[p].results) :
           LET e == inv[p].results[k]
           IN /\ e.url = SEED_URLS[k]
              /\ \/ DOMAIN e = {"url", "error"}
                 \/ /\ IsReport(e)
                    /\ e.snapshots_found \in Nat
                    /\ e.inserted \in Nat
                    /\ e.skipped_existing \in Nat

\* A backfill has returned with its first source failed and its second
\* ingested
C14_PartialFailure ==
  \E p \in Procs :
    /\ Backfilled(p)
    /\ Len(inv[p].results) = 2
    /\ IsError(inv[p].results[1])
    /\ inv[p].results[1].error = FetchError
    /\ IsReport(inv[p].results[2])
    /\ inv[p].results[2].inserted >= 1

\* C15: no refresh or backfill returns a normal result that reports a failed
\* store operation as the error of one source.
C15_StoreFailureFatal ==
  \A p \in Procs :
    inv[p].pc = "done" =>
      \A k \in 1..Len(inv[p].results) :
        IsError(inv[p].results[k]) => inv[p].results[k].error # LockedError

\* The snippet of a text: none for the empty text, else its first 280
\* characters, with the ellipsis when there are more
Snippet(text) ==
  IF text = <<>> THEN NoneVal
  ELSE Take(text, SnippetLen) \o (IF Len(text) > SnippetLen THEN Ellipsis ELSE <<>>)

\* C16: every item latest or search answers with has no snippet when its
\* text is empty, and else the first 280 characters of its text, followed by
\* the ellipsis exactly when the text is longer.
C16_SnippetShape ==
  resp.op \in {"latest", "search"} =>
    \A i \in 1..Len(resp.results) :
      resp.results[i].summary = Snippet(resp.rows[i].text_content)

\* C17: every committed record has the digest of its own text, and every
\* record a backfill has written carries the time of an archive capture and
\* that capture's text.
C17_DigestOfText ==
  /\ \A k \in 1..Len(db) : db[k].content_hash = sha256(db[k].text_content)
  /\ \A p \in Procs :
       inv[p].kind = "backfill" =>
         \A k \in 1..Len(inv[p].wrote) :
           LET r == inv[p].wrote[k]
           IN /\ r.content_hash = sha256(r.text_content)
              /\ \E ts \in {Stamp1, Stamp2} :
                   /\ r.fetched_at = IsoOfStamp(ts)
                   /\ r.text_content = Archived(r.url, ts).text
                   /\ r.title = Archived(r.url, ts).title

\* Records of a refresh and of a backfill are committed
C17_BothWriters ==
  /\ \E p \in Procs : Refreshed(p) /\ inv[p].wrote # <<>>
  /\ \E p \in Procs : Backfilled(p) /\ Len(inv[p].wrote) >= 2
  /\ Len(db) >= 3

\* The rows of a url an invocation has inserted
Wrote(p, url) == {k \in 1..Len(inv[p].wrote) : inv[p].wrote[k].url = url}

\* C18: for every source a returned backfill reports as ingested,
\* inserted + skipped_existing = snapshots_found, and the invocation has
\* added exactly `inserted` records of that source, all committed.
C18_Accounting ==
  \A p \in Procs :
    Backfilled(p) =>
      \A k \in 1..Len(inv[p].results) :
        LET e == inv[p].results[k]
        IN ~IsError(e) =>
             /\ e.inserted + e.skipped_existing = e.snapshots_found
             /\ Cardinality(Wrote(p, e.url)) = e.inserted
             /\ \A j \in Wrote(p, e.url) : inv[p].wrote[j] \in Range(db)

\* A backfill has returned a report with records inserted and records skipped
C18_Mixed ==
  \E p \in Procs :
    /\ Backfilled(p)
    /\ \E k \in 1..Len(inv[p].results) :
         /\ ~IsError(inv[p].results[k])
         /\ inv[p].results[k].inserted >= 1
         /\ inv[p].results[k].skipped_existing >= 1

\* C19: a returned backfill has added no record of a source it reports as
\* {url, error}.
C19_ErrorAddsNothing ==
  \A p \in Procs :
    Backfilled(p) =>
      \A k \in 1..Len(inv[p].results) :
        IsError(inv[p].results[k]) => Wrote(p, inv[p].results[k].url) = {}

====
